---- MODULE Spec2Model ----
(***************************************************************************)
(* A model of henryperkins/video_processing_toolkit: the per-video        *)
(* pipeline (workflow.py), its two command-line drivers (main.py,         *)
(* interface.py), the rule engine (tagging.py) and the JSON sink          *)
(* (export.py).                                                            *)
(*                                                                         *)
(* Python values are modelled as follows.  A str is a TLA+ string; the    *)
(* string operations the code uses (in, lower, split, endswith, f-string  *)
(* formatting of an int) are computed character by character.  A dict is  *)
(* a function from its keys; `k in d` is k \in DOMAIN d.  A value that    *)
(* may be None is a sequence of length 0 (None) or 1 (the value), except  *)
(* a description, for which None is the reserved string PyNone.  A call   *)
(* that may raise returns a record [raised |-> exception name or          *)
(* NoError, value |-> ...].                                                *)
(***************************************************************************)
EXTENDS Integers, Sequences, FiniteSets, TLC

\* ------------------------------------------------------------- bounds
\* Number of URLs given on the command line (args.urls).
NumVideos == 2

\* ------------------------------------------------------------ strings
PyNone == "<None>"
NoError == "no error"

Max(a, b) == IF a >= b THEN a ELSE b

\* Python `needle in hay` for two str.
IsSubstr(needle, hay) ==
    \E k \in 0..Max(Len(hay) - Len(needle), 0) :
        /\ k + Len(needle) <= Len(hay)
        /\ SubSeq(hay, k + 1, k + Len(needle)) = needle

\* Python hay.endswith(suffix).
EndsWith(hay, suffix) ==
    /\ Len(suffix) <= Len(hay)
    /\ SubSeq(hay, Len(hay) - Len(suffix) + 1, Len(hay)) = suffix

\* The upper-case letters and their lower-case forms.
LowerOf ==
    [A |-> "a", B |-> "b", C |-> "c", D |-> "d", E |-> "e", F |-> "f",
     G |-> "g", H |-> "h", I |-> "i", J |-> "j", K |-> "k", L |-> "l",
     M |-> "m", N |-> "n", O |-> "o", P |-> "p", Q |-> "q", R |-> "r",
     S |-> "s", T |-> "t", U |-> "u", V |-> "v", W |-> "w", X |-> "x",
     Y |-> "y", Z |-> "z"]

\* str.lower() of a one-character string.
LowerChar(c) == IF c \in DOMAIN LowerOf THEN LowerOf[c] ELSE c

RECURSIVE LowerFrom(_, _)
LowerFrom(s, k) ==
    IF k > Len(s) THEN ""
    ELSE LowerChar(SubSeq(s, k, k)) \o LowerFrom(s, k + 1)

\* Python s.lower().
lower(s) == LowerFrom(s, 1)

IsSpace(c) == c = " "

\* Python s.split(): the maximal runs of non-whitespace characters, as a set
\* (the code only ever builds set(s.split())).
RECURSIVE SplitFrom(_, _, _)
SplitFrom(s, k, cur) ==
    IF k > Len(s) THEN (IF cur = "" THEN {} ELSE {cur})
    ELSE IF IsSpace(SubSeq(s, k, k))
         THEN (IF cur = "" THEN {} ELSE {cur}) \cup SplitFrom(s, k + 1, "")
         ELSE SplitFrom(s, k + 1, cur \o SubSeq(s, k, k))

split(s) == SplitFrom(s, 1, "")

Digits == "0123456789"

\* Python str(n) / f"{n}" for an int n >= 0.
RECURSIVE IntToStr(_)
IntToStr(n) ==
    IF n < 10 THEN SubSeq(Digits, n + 1, n + 1)
    ELSE IntToStr(n \div 10) \o SubSeq(Digits, (n % 10) + 1, (n % 10) + 1)

\* dict.get(key, default).
Get(d, key, default) == IF key \in DOMAIN d THEN d[key] ELSE default

\* list(set(tags)): the distinct values of a list (order not modelled).
ToSet(seq) == {seq[k] : k \in 1..Len(seq)}

\* Some list holding each element of S once: list(set(...)).
RECURSIVE SetToSeq(_)
SetToSeq(S) ==
    IF S = {} THEN <<>>
    ELSE LET e == CHOOSE e \in S : TRUE
         IN  <<e>> \o SetToSeq(S \ {e})

\* A value returned, or an exception raised.
Return(v) == [raised |-> NoError, value |-> v]
Raise(exc) == [raised |-> exc, value |-> <<>>]

\* --------------------------------------------------------- tagging.py
\* The custom_rules argument of apply_tags is a record
\*   [kind |-> "None"]                          None
\*   [kind |-> "path", file |-> f, doc |-> d]   a str naming a file, which
\*        is "missing", "malformed" (not JSON) or "ok" with JSON document d
\*   [kind |-> "dict", doc |-> d]               an already loaded document d
\* Python truth value of the custom_rules argument.
Truthy(custom_rules) ==
    CASE custom_rules.kind = "None" -> FALSE
      [] custom_rules.kind = "path" -> TRUE
      [] custom_rules.kind = "dict" -> DOMAIN custom_rules.doc # {}

load_custom_tags(custom_rules_path) ==
    IF ~Truthy(custom_rules_path) THEN Return(<<>>)
    ELSE IF custom_rules_path.kind = "dict" THEN Raise("TypeError")
    ELSE IF custom_rules_path.file = "missing" THEN Return(<<>>)
    ELSE IF custom_rules_path.file = "malformed" THEN Raise("JSONDecodeError")
    ELSE Return(custom_rules_path.doc)

\* The loop body with `tags = rule.get('tags', [])` in place of the
\* tags.extend(...) of lines 65 and 73.
ApplyRule_Assign(video_info, tags, rule) ==
    LET kw_hit ==
            /\ "description_keywords" \in DOMAIN rule
            /\ ToSet(rule["description_keywords"])
                  \cap split(Get(video_info, "qwen_description", "")) # {}
        conditions == Get(rule, "metadata_conditions", <<>>)
        md_hit ==
            /\ "metadata_conditions" \in DOMAIN rule
            /\ Get(conditions, "resolution", PyNone)
                 = Get(video_info, "resolution", "")
            /\ Get(video_info, "duration", 0)
                 > Get(conditions, "duration_gt", 0)
    IN  IF kw_hit \/ md_hit THEN Get(rule, "tags", <<>>) ELSE tags

\* One iteration of the loop of apply_custom_rules: the tags list after `rule`.
ApplyRule(video_info, tags, rule) ==
    LET kw_hit ==
            /\ "description_keywords" \in DOMAIN rule
            /\ ToSet(rule["description_keywords"])
                  \cap split(Get(video_info, "qwen_description", "")) # {}
        t1 == IF kw_hit THEN tags \o Get(rule, "tags", <<>>) ELSE tags
        conditions == Get(rule, "metadata_conditions", <<>>)
        resolution == Get(video_info, "resolution", "")
        duration == Get(video_info, "duration", 0)
        md_hit ==
            /\ "metadata_conditions" \in DOMAIN rule
            /\ Get(conditions, "resolution", PyNone) = resolution
            /\ duration > Get(conditions, "duration_gt", 0)
    IN  IF md_hit THEN t1 \o Get(rule, "tags", <<>>) ELSE t1

RECURSIVE ApplyRulesFrom(_, _, _, _)
ApplyRulesFrom(video_info, tags, rules, k) ==
    IF k > Len(rules) THEN tags
    ELSE ApplyRulesFrom(video_info, ApplyRule(video_info, tags, rules[k]),
                        rules, k + 1)

\* str.split() of None raises; it is evaluated for a rule with keywords.
SplitsNone(video_info, rules) ==
    /\ Get(video_info, "qwen_description", "") = PyNone
    /\ \E k \in 1..Len(rules) : "description_keywords" \in DOMAIN rules[k]

apply_custom_rules(video_info, tags, custom_tags_rules) ==
    LET rules == Get(custom_tags_rules, "rules", <<>>)
    IN  IF SplitsNone(video_info, rules) THEN Raise("AttributeError")
        ELSE Return(SetToSeq(ToSet(ApplyRulesFrom(video_info, tags, rules, 1))))

\* The built-in rules of apply_tags, lines 31-42, given the lower-cased
\* description.
BuiltinTags(video_info, description) ==
    (IF "resolution" \in DOMAIN video_info
        /\ IsSubstr("4K", video_info["resolution"])
     THEN <<"High Resolution">> ELSE <<>>)
    \o (IF "duration" \in DOMAIN video_info /\ video_info["duration"] > 600
        THEN <<"Extended Play">> ELSE <<>>)
    \o (IF Get(video_info, "codec", PyNone) = "h264"
        THEN <<"H.264 Codec">> ELSE <<>>)
    \o (IF IsSubstr("action", description) THEN <<"Action">> ELSE <<>>)
    \o (IF IsSubstr("night shot", description)
        THEN <<"Night-time Filming">> ELSE <<>>)

\* apply_tags with `tags.extend(apply_custom_rules(...)); return tags` in
\* place of lines 45-46.
apply_tags_Extend(video_info, custom_rules) ==
    IF Get(video_info, "qwen_description", "") = PyNone
    THEN Raise("AttributeError")
    ELSE
      LET description == lower(Get(video_info, "qwen_description", ""))
          tags == BuiltinTags(video_info, description)
      IN  IF ~Truthy(custom_rules) THEN Return(tags)
          ELSE LET loaded == load_custom_tags(custom_rules)
               IN  IF loaded.raised # NoError THEN loaded
                   ELSE LET r == apply_custom_rules(video_info, tags,
                                                    loaded.value)
                        IN  IF r.raised # NoError THEN r
                            ELSE Return(tags \o r.value)

apply_tags(video_info, custom_rules) ==
    IF Get(video_info, "qwen_description", "") = PyNone
    THEN Raise("AttributeError")
    ELSE
      LET description == lower(Get(video_info, "qwen_description", ""))
          tags == BuiltinTags(video_info, description)
      IN  IF ~Truthy(custom_rules) THEN Return(SetToSeq(ToSet(tags)))
          ELSE LET loaded == load_custom_tags(custom_rules)
               IN  IF loaded.raised # NoError THEN loaded
                   ELSE LET r == apply_custom_rules(video_info, tags,
                                                    loaded.value)
                        IN  IF r.raised # NoError THEN r
                            ELSE Return(SetToSeq(ToSet(r.value)))

classify_video(video_info) ==
    LET tags == ToSet(Get(video_info, "tags", <<>>))
    IN  IF "Action" \in tags \/ "High Intensity" \in tags THEN Return("Action")
        ELSE IF "Documentary Footage" \in tags THEN Return("Documentary")
        ELSE IF Get(video_info, "qwen_description", "") = PyNone
             THEN Raise("AttributeError")
        ELSE IF IsSubstr("Narrative",
                         lower(Get(video_info, "qwen_description", "")))
             THEN Return("Documentary")
        ELSE IF "Aerial Shot" \in tags \/ "Drone Footage" \in tags
             THEN Return("Cinematic")
        ELSE Return("Unclassified")

\* ---------------------------------------------------------- export.py
\* export_to_json(data, output_dir) on the output directory `out` (the list
\* of files written so far); write_ok is whether open/json.dump succeed.
\* data['filename'] is read before the try block.
export_to_json(data, out, write_ok) ==
    IF "filename" \notin DOMAIN data THEN [raised |-> "KeyError", value |-> out]
    ELSE IF write_ok
         THEN Return(Append(out, [file |-> data["filename"] \o ".json",
                                  data |-> data]))
         ELSE Return(out)

\* -------------------------------------------------------- workflow.py
video_extensions ==
    <<".mp4", ".avi", ".mov", ".mkv", ".flv", ".wmv", ".webm", ".ogg">>

\* is_video_url(url); head is what the HEAD request meets: "video" (a video
\* Content-Type), "other" or "error" (RequestException).  requests: the
\* network requests issued.
is_video_url(url, head) ==
    IF \E k \in 1..Len(video_extensions) : EndsWith(url, video_extensions[k])
    THEN [value |-> TRUE, requests |-> <<>>]
    ELSE [value |-> (head = "video"),
          requests |-> <<[method |-> "HEAD", url |-> url]>>]

\* urlparse(url).path for the URLs of the model: what follows the host, up
\* to the first "?" or "#".
RECURSIVE CutAt(_, _, _)
CutAt(s, k, stops) ==
    IF k > Len(s) \/ SubSeq(s, k, k) \in stops THEN SubSeq(s, 1, k - 1)
    ELSE CutAt(s, k + 1, stops)

RECURSIVE AfterLast(_, _, _)
AfterLast(s, k, c) ==
    IF k = 0 THEN s
    ELSE IF SubSeq(s, k, k) = c THEN SubSeq(s, k + 1, Len(s))
    ELSE AfterLast(s, k - 1, c)

\* os.path.basename(urlparse(video_url).path), line 139.
FileNameOf(video_url) ==
    LET p == CutAt(video_url, 1, {"?", "#"})
    IN  AfterLast(p, Len(p), "/")

DownloadDirectory == "downloaded_videos/"

\* The link extract_video_url_from_html finds in a scraped page.
ScrapedLink == "http://cdn/v.mp4"

\* download_video(url, filename).  env is what the network does:
\*   env.head  the HEAD request of is_video_url (see there)
\*   env.page  the page GET: "error", "nothtml", "nolink" or "link"
\*   env.xfer  the streamed GET: "request_error" (raised before the file is
\*             opened), "midway_error" (raised in the chunk loop) or "ok"
\* value: the path returned, or PyNone.  file: what the call leaves at
\* file_path ("untouched", "partial" or "complete").
download_video(url, filename, env) ==
    LET file_path == DownloadDirectory \o filename
        direct == is_video_url(url, env.head)
        page_get == <<[method |-> "GET", url |-> url]>>
        located == direct.value \/ env.page = "link"
        direct_url == IF direct.value THEN url ELSE ScrapedLink
        reqs1 == IF direct.value THEN direct.requests
                 ELSE direct.requests \o page_get
    IN  IF ~located
        THEN [value |-> PyNone, requests |-> reqs1, file |-> "untouched",
              path |-> file_path, stages |-> <<"locate">>]
        ELSE [value |-> IF env.xfer = "ok" THEN file_path ELSE PyNone,
              requests |-> Append(reqs1, [method |-> "GET", url |-> direct_url]),
              file |-> CASE env.xfer = "ok" -> "complete"
                         [] env.xfer = "midway_error" -> "partial"
                         [] OTHER -> "untouched",
              path |-> file_path, stages |-> <<"locate", "acquire">>]

\* Lines 148-152 of process_video_pipeline: the tags, then the
\* classification of video_info as it is at line 151, then the update.
tag_and_classify(video_info, rules) ==
    LET t == apply_tags(video_info, rules)
        c == classify_video(video_info)
    IN  IF t.raised # NoError
        THEN [raised |-> t.raised, value |-> video_info,
              stages |-> <<"apply_tags">>]
        ELSE IF c.raised # NoError
        THEN [raised |-> c.raised, value |-> video_info,
              stages |-> <<"apply_tags", "classify_video">>]
        ELSE [raised |-> NoError,
              value |-> [tags |-> t.value, classification |-> c.value]
                        @@ video_info,
              stages |-> <<"apply_tags", "classify_video">>]

\* -------------------------------------------------------- analysis.py
\* extract_metadata(filepath).  probe is what running the prober gives:
\*   [kind |-> "CalledProcessError"]          non-zero exit status
\*   [kind |-> "bad_output"]                  output that json.loads or the
\*        key lookups reject, or no prober to run (JSONDecodeError,
\*        KeyError, FileNotFoundError: none of them caught)
\*   [kind |-> "no_video_stream"]             no stream of codec_type video
\*   [kind |-> "ok", format |-> f, stream |-> s]
extract_metadata(filepath, probe) ==
    CASE probe.kind = "CalledProcessError" -> Return(<<>>)
      [] probe.kind = "no_video_stream" -> Return(<<>>)
      [] probe.kind = "bad_output" -> Raise("KeyError")
      [] OTHER ->
           Return(<<[duration |-> probe.format.duration,
                     bit_rate |-> probe.format.bit_rate,
                     resolution |-> IntToStr(probe.stream.width) \o "x"
                                    \o IntToStr(probe.stream.height),
                     frame_rate |-> probe.stream.r_frame_rate,
                     codec |-> probe.stream.codec_name,
                     size |-> probe.size]>>)

\* detect_scenes(filepath, threshold): the scene list the detector finds,
\* or the exception it raises (nothing in detect_scenes catches).
detect_scenes(filepath, found) ==
    IF found.kind = "error" THEN Raise("SceneDetectError")
    ELSE Return(found.scene_list)

\* ------------------------------------------------------ qwen_model.py
\* QwenVLModel() re-raises a failure to load the model; process_video
\* returns the text, or None when anything in it raises.
annotate(local_filepath, metadata, model) ==
    CASE model.kind = "load_error" -> Raise("Exception")
      [] model.kind = "process_error" -> Return(PyNone)
      [] OTHER -> Return(model.text)

\* -------------------------------------------------- what the world gives
Urls == {"http://h/a.mp4", "http://h/b.mp4?t=1", "http://h/watch"}

NetOutcomes ==
    [head : {"video", "other", "error"},
     page : {"error", "nothtml", "nolink", "link"},
     xfer : {"request_error", "midway_error", "ok"}]

\* What the prober reports for a file with duration d, a video stream of
\* w x h pixels, codec c and fps frames per second, and a subtitle stream
\* or not.
Probed(d, w, h, c, fps, sub) ==
    [kind |-> "ok",
     format |-> [duration |-> d, bit_rate |-> 1000],
     stream |-> [width |-> w, height |-> h,
                 r_frame_rate |-> IntToStr(fps) \o "/1", codec_name |-> c],
     fps |-> fps, has_subtitle |-> sub,
     size |-> 1]

ProbeOutcomes ==
    {[kind |-> "CalledProcessError"], [kind |-> "bad_output"],
     [kind |-> "no_video_stream"],
     Probed(120, 1920, 1080, "h264", 60, TRUE),
     Probed(200, 1280, 720, "hevc", 24, FALSE),
     Probed(4000, 3840, 2160, "h264", 30, FALSE)}

SceneOutcomes ==
    {[kind |-> "error"],
     [kind |-> "ok", scene_list |-> <<>>],
     [kind |-> "ok", scene_list |-> <<[start_time |-> 0, end_time |-> 5]>>]}

Descriptions ==
    {"", "An intense action sequence in the water",
     "drone footage over mountains", "A Narrative documentary about sports"}

ModelOutcomes ==
    {[kind |-> "load_error"], [kind |-> "process_error"]}
    \cup {[kind |-> "ok", text |-> d] : d \in Descriptions}

\* Custom rule documents.
DroneRules ==
    [rules |-> <<[description_keywords |-> <<"drone">>,
                  tags |-> <<"Aerial Shot">>]>>]

MetaRules ==
    [rules |-> <<[metadata_conditions |-> [duration_gt |-> 600],
                  tags |-> <<"Long">>],
                 [metadata_conditions |-> [resolution |-> "3840x2160"],
                  tags |-> <<"UHD", "H.264 Codec">>],
                 [description_keywords |-> <<"action", "sports">>,
                  metadata_conditions |-> [resolution |-> "1920x1080",
                                           duration_gt |-> 100],
                  tags |-> <<"High Intensity", "High Intensity">>]>>]

RuleDocs == {DroneRules, MetaRules}

NoRules == [kind |-> "None"]

\* The values process_video_pipeline may get as custom_rules.
RuleArgs ==
    {NoRules, [kind |-> "dict", doc |-> <<>>],
     [kind |-> "path", file |-> "missing", doc |-> <<>>],
     [kind |-> "path", file |-> "malformed", doc |-> <<>>]}
    \cup {[kind |-> "path", file |-> "ok", doc |-> d] : d \in RuleDocs}
    \cup {[kind |-> "dict", doc |-> d] : d \in RuleDocs}

\* Who runs the pipeline: main() of main.py, main() of interface.py with
\* --urls, or a direct call of process_video_pipeline for one URL.
Entries == {"main.py", "interface.py", "call"}

\* -------------------------------------------------------------- state
VARIABLES
    entry,            \* the driver
    urls,             \* args.urls
    custom_rules,     \* the custom_rules argument of process_video_pipeline
    i,                \* the driver's loop: index of the current URL
    pc,               \* where the program is
    error,            \* the exception that ended the program, or NoError
    local_filepath,   \* per video: local_filepath of line 140
    metadata,         \* per video: metadata of line 142 (<<>> is None)
    scenes,           \* per video: scenes of line 144
    qwen_description, \* per video: qwen_description of line 146
    video_info,       \* per video: video_info of lines 148-152
    calls,            \* per video: the stages called so far, in order
    result,           \* per video: stage -> how its call ended
    requests,         \* per video: the network requests issued
    files,            \* the download directory: path -> "partial"/"complete"
    output,           \* the output directory: the JSON files written
    \* the rule engine called on its own
    e_info,           \* the video_info argument
    e_rules,          \* the custom_rules argument of the last apply_tags
    e_tags,           \* what apply_tags returned or raised
    e_class,          \* what classify_video returned or raised
    e_arg,            \* the tags and custom_tags_rules arguments of
                      \* apply_custom_rules
    e_custom,         \* what apply_custom_rules returned or raised
    e_pc              \* "off", "ready", "tagged", "classified" or "ruled"

pipeline_vars ==
    <<entry, urls, custom_rules, i, pc, error, local_filepath, metadata,
      scenes, qwen_description, video_info, calls, result, requests,
      files, output>>

engine_vars == <<e_info, e_rules, e_tags, e_class, e_arg, e_custom, e_pc>>

vars == <<pipeline_vars, engine_vars>>

NotCalled == [raised |-> "not called", value |-> <<>>]

EngineOff ==
    /\ e_info = <<>>
    /\ e_rules = NoRules
    /\ e_tags = NotCalled
    /\ e_class = NotCalled
    /\ e_arg = <<>>
    /\ e_custom = NotCalled
    /\ e_pc = "off"

Videos == 1..NumVideos

Init ==
    /\ entry \in Entries
    /\ urls \in [Videos -> Urls]
    /\ entry = "call" => \A v \in Videos : urls[v] = urls[1]
    /\ custom_rules \in (IF entry = "call" THEN RuleArgs ELSE {NoRules})
    /\ i = 1
    /\ pc = "start"
    /\ error = NoError
    /\ local_filepath = [v \in Videos |-> PyNone]
    /\ metadata = [v \in Videos |-> <<>>]
    /\ scenes = [v \in Videos |-> <<>>]
    /\ qwen_description = [v \in Videos |-> PyNone]
    /\ video_info = [v \in Videos |-> <<>>]
    /\ calls = [v \in Videos |-> <<>>]
    /\ result = [v \in Videos |-> <<>>]
    /\ requests = [v \in Videos |-> <<>>]
    /\ files = <<>>
    /\ output = <<>>
    /\ EngineOff

\* An uncaught exception ends the program: neither driver nor
\* process_video_pipeline has a try around the pipeline.
Crash(exc) == pc' = "crashed" /\ error' = exc /\ i' = i

\* process_video_pipeline returned: back to the driver's for loop.
Returned == pc' = "loop" /\ i' = i + 1 /\ error' = error

Goto(stage) == pc' = stage /\ i' = i /\ error' = error

Called(v, stages) == calls' = [calls EXCEPT ![v] = @ \o stages]

Result(v, stage, r) == result' = [result EXCEPT ![v] = (stage :> r) @@ @]

\* The check of line 141 left out: the probe runs on whatever download_video
\* returned.
HasLocalFile_Always(path) == TRUE

\* `if local_filepath:` (workflow.py line 141).
HasLocalFile(path) == path # PyNone /\ path # ""

\* The check of line 143 left out: the later stages run whatever
\* extract_metadata returned.
HasMetadata_Always(md) == TRUE

\* `if metadata:` (workflow.py line 143).
HasMetadata(md) == Len(md) = 1 /\ DOMAIN md[1] # {}

\* main.py lines 23-32: args.tag_rules is read, and parse_arguments defines
\* no such option.  interface.py lines 134-153: --urls given, custom_rules
\* is None.
Startup ==
    /\ pc = "start"
    /\ IF entry = "main.py"
       THEN Crash("AttributeError")
       ELSE Goto("loop")
    /\ UNCHANGED engine_vars
    /\ UNCHANGED <<entry, urls, custom_rules, local_filepath, metadata, scenes,
                   qwen_description, video_info, calls, result, requests,
                   files, output>>

\* The for loop over the URLs (main.py 35-37, interface.py 155-167); a
\* direct call processes its one URL.
NextVideo ==
    /\ pc = "loop"
    /\ IF i <= (IF entry = "call" THEN 1 ELSE Len(urls))
       THEN Goto("download")
       ELSE Goto("done")
    /\ UNCHANGED engine_vars
    /\ UNCHANGED <<entry, urls, custom_rules, local_filepath, metadata, scenes,
                   qwen_description, video_info, calls, result, requests,
                   files, output>>

\* Lines 139-141 and 158-159.
Download ==
    /\ pc = "download"
    /\ \E env \in NetOutcomes :
         LET r == download_video(urls[i], FileNameOf(urls[i]), env)
         IN  /\ local_filepath' = [local_filepath EXCEPT ![i] = r.value]
             /\ requests' = [requests EXCEPT ![i] = @ \o r.requests]
             /\ files' = IF r.file = "untouched" THEN files
                         ELSE (r.path :> r.file) @@ files
             /\ Called(i, r.stages)
             /\ Result(i, "acquire", IF r.value = PyNone THEN "failed" ELSE "ok")
             /\ IF HasLocalFile(r.value) THEN Goto("probe") ELSE Returned
    /\ UNCHANGED engine_vars
    /\ UNCHANGED <<entry, urls, custom_rules, metadata, scenes,
                   qwen_description, video_info, output>>

\* Lines 142-143 and 156-157.
Probe ==
    /\ pc = "probe"
    /\ \E probe \in ProbeOutcomes :
         LET r == extract_metadata(local_filepath[i], probe)
         IN  /\ Called(i, <<"probe">>)
             /\ Result(i, "probe", IF r.raised = NoError /\ r.value # <<>>
                                   THEN "ok" ELSE "failed")
             /\ IF r.raised # NoError
                THEN Crash(r.raised) /\ UNCHANGED metadata
                ELSE /\ metadata' = [metadata EXCEPT ![i] = r.value]
                     /\ IF HasMetadata(r.value) THEN Goto("scene") ELSE Returned
    /\ UNCHANGED engine_vars
    /\ UNCHANGED <<entry, urls, custom_rules, local_filepath, scenes,
                   qwen_description, video_info, requests, files, output>>

\* Line 144.
Scene ==
    /\ pc = "scene"
    /\ \E found \in SceneOutcomes :
         LET r == detect_scenes(local_filepath[i], found)
         IN  /\ Called(i, <<"scene">>)
             /\ Result(i, "scene", IF r.raised = NoError THEN "ok" ELSE "failed")
             /\ IF r.raised # NoError
                THEN Crash(r.raised) /\ UNCHANGED scenes
                ELSE /\ scenes' = [scenes EXCEPT ![i] = r.value]
                     /\ Goto("annotate")
    /\ UNCHANGED engine_vars
    /\ UNCHANGED <<entry, urls, custom_rules, local_filepath, metadata,
                   qwen_description, video_info, requests, files, output>>

\* Lines 145-147.
Annotate ==
    /\ pc = "annotate"
    /\ \E model \in ModelOutcomes :
         LET r == annotate(local_filepath[i], metadata[i], model)
         IN  /\ Called(i, <<"annotate">>)
             /\ Result(i, "annotate",
                       IF r.raised # NoError THEN "raised"
                       ELSE IF r.value = PyNone THEN "none" ELSE "ok")
             /\ IF r.raised # NoError
                THEN Crash(r.raised) /\ UNCHANGED qwen_description
                ELSE /\ qwen_description' =
                            [qwen_description EXCEPT ![i] = r.value]
                     /\ Goto("rules")
    /\ UNCHANGED engine_vars
    /\ UNCHANGED <<entry, urls, custom_rules, local_filepath, metadata, scenes,
                   video_info, requests, files, output>>

\* Lines 148-149: {**metadata, 'qwen_description': ..., 'scenes': ...}.
BuildVideoInfo(md, description, scene_list) ==
    IF Len(md) # 1 THEN Raise("TypeError")
    ELSE Return([qwen_description |-> description, scenes |-> scene_list]
                @@ md[1])

\* Lines 148-154.
RuleEngine ==
    /\ pc = "rules"
    /\ LET b == BuildVideoInfo(metadata[i], qwen_description[i], scenes[i])
           r == tag_and_classify(b.value, custom_rules)
       IN  IF b.raised # NoError
           THEN Crash(b.raised) /\ UNCHANGED <<video_info, calls, result>>
           ELSE /\ video_info' = [video_info EXCEPT ![i] = r.value]
                /\ Called(i, r.stages)
                /\ Result(i, "rules", IF r.raised = NoError THEN "ok" ELSE "failed")
                /\ IF r.raised # NoError THEN Crash(r.raised) ELSE Goto("export")
    /\ UNCHANGED engine_vars
    /\ UNCHANGED <<entry, urls, custom_rules, local_filepath, metadata, scenes,
                   qwen_description, requests, files, output>>

\* Line 155.
Export ==
    /\ pc = "export"
    /\ \E write_ok \in BOOLEAN :
         LET r == export_to_json(video_info[i], output, write_ok)
         IN  /\ Called(i, <<"export_to_json">>)
             /\ Result(i, "export",
                       IF r.raised = NoError /\ r.value # output
                       THEN "ok" ELSE "failed")
             /\ output' = r.value
             /\ IF r.raised # NoError THEN Crash(r.raised) ELSE Returned
    /\ UNCHANGED engine_vars
    /\ UNCHANGED <<entry, urls, custom_rules, local_filepath, metadata, scenes,
                   qwen_description, video_info, requests, files>>

Next ==
    \/ Startup
    \/ NextVideo
    \/ Download
    \/ Probe
    \/ Scene
    \/ Annotate
    \/ RuleEngine
    \/ Export

Spec == Init /\ [][Next]_vars

\* ------------------------------------------- the rule engine on its own
\* apply_tags and classify_video called directly, on the video_info that
\* lines 148-149 build from a probed file and a description (a str, None,
\* or no description key), with or without a tags key.
EngineProbes ==
    {Probed(d, wh[1], wh[2], c, fps, sub) :
        d \in {120, 700, 4000},
        wh \in {<<1920, 1080>>, <<3840, 2160>>},
        c \in {"h264", "hevc"},
        fps \in {30, 60},
        sub \in BOOLEAN}

EngineDescriptions ==
    Descriptions \cup {"Drone footage over mountains",
                       "night shot of a reaction", PyNone}

MetadataOf(probe) == extract_metadata("f", probe).value[1]

EngineInputs ==
    {[e_probe |-> p, info |-> MetadataOf(p)] : p \in EngineProbes}
    \cup {[e_probe |-> p, info |-> [qwen_description |-> d] @@ MetadataOf(p)] :
             p \in {Probed(120, 1920, 1080, "h264", 60, TRUE),
                    Probed(200, 1280, 720, "hevc", 24, FALSE),
                    Probed(4000, 3840, 2160, "hevc", 30, FALSE)},
             d \in EngineDescriptions}

TagLists ==
    {<<>>, <<"Action">>, <<"High Intensity", "Aerial Shot">>,
     <<"Documentary Footage">>, <<"Narrative">>, <<"Aerial Shot">>,
     <<"Drone Footage", "Extended Play">>}

InitEngine ==
    /\ entry = "call"
    /\ urls = [v \in Videos |-> "http://h/a.mp4"]
    /\ custom_rules = NoRules
    /\ i = 1
    /\ pc = "engine"
    /\ error = NoError
    /\ local_filepath = [v \in Videos |-> PyNone]
    /\ metadata = [v \in Videos |-> <<>>]
    /\ scenes = [v \in Videos |-> <<>>]
    /\ qwen_description = [v \in Videos |-> PyNone]
    /\ video_info = [v \in Videos |-> <<>>]
    /\ calls = [v \in Videos |-> <<>>]
    /\ result = [v \in Videos |-> <<>>]
    /\ requests = [v \in Videos |-> <<>>]
    /\ files = <<>>
    /\ output = <<>>
    /\ e_info \in EngineInputs
    /\ e_rules = NoRules
    /\ e_tags = NotCalled
    /\ e_class = NotCalled
    /\ e_arg = <<>>
    /\ e_custom = NotCalled
    /\ e_pc = "ready"

\* tags = apply_tags(video_info, custom_rules=rules)
CallApplyTags ==
    /\ e_pc = "ready"
    /\ \E rules \in RuleArgs :
         /\ e_rules' = rules
         /\ e_tags' = apply_tags(e_info.info, rules)
    /\ e_pc' = "tagged"
    /\ UNCHANGED <<e_info, e_class, e_arg, e_custom>>
    /\ UNCHANGED pipeline_vars

\* classify_video(video_info), the caller having stored a tags list in
\* video_info, or none.
CallClassify ==
    /\ e_pc = "ready"
    /\ \E t \in {<<>>} \cup {<<l>> : l \in TagLists} :
         LET info == IF t = <<>> THEN e_info.info
                     ELSE [tags |-> t[1]] @@ e_info.info
         IN  /\ e_info' = [e_info EXCEPT !.info = info]
             /\ e_class' = classify_video(info)
    /\ e_pc' = "classified"
    /\ UNCHANGED <<e_rules, e_tags, e_arg, e_custom>>
    /\ UNCHANGED pipeline_vars

\* apply_custom_rules(video_info, tags, custom_tags_rules), on a tags list
\* of the caller and a loaded rules document ({} included).
CallApplyCustomRules ==
    /\ e_pc = "ready"
    /\ \E tags \in TagLists, custom_tags_rules \in RuleDocs \cup {<<>>} :
         /\ e_arg' = [tags |-> tags, custom_tags_rules |-> custom_tags_rules]
         /\ e_custom' = apply_custom_rules(e_info.info, tags,
                                           custom_tags_rules)
    /\ e_pc' = "ruled"
    /\ UNCHANGED <<e_info, e_rules, e_tags, e_class>>
    /\ UNCHANGED pipeline_vars

NextEngine ==
    \/ CallApplyTags
    \/ CallClassify
    \/ CallApplyCustomRules

SpecEngine == InitEngine /\ [][NextEngine]_vars

\* ------------------------------------------------------------- claims
Terminal == pc \in {"done", "crashed"}

\* How the call of `stage` for video v ended, "not run" if it was not made.
ResultOf(v, stage) == Get(result[v], stage, "not run")

CalledStages(v) == ToSet(calls[v])

\* The sink stored the record of video v.
Persisted(v) == ResultOf(v, "export") = "ok"

\* The number of export_to_json calls made for video v.
NumExports(v) ==
    Cardinality({k \in 1..Len(calls[v]) : calls[v][k] = "export_to_json"})

StageOrder ==
    <<"locate", "acquire", "probe", "scene", "annotate", "apply_tags",
      "classify_video", "export_to_json">>

IsPrefix(s, t) == Len(s) <= Len(t) /\ SubSeq(t, 1, Len(s)) = s

\* C1: a video whose probe (extract_metadata) failed, by returning None or
\* by raising, never has scene detection, annotation, apply_tags,
\* classify_video or export_to_json called for it, and the sink holds no
\* record of it.
C1_ProbeFailureShortCircuits ==
    \A v \in Videos :
        ResultOf(v, "probe") = "failed" =>
            /\ CalledStages(v) \cap {"scene", "annotate", "apply_tags",
                                     "classify_video", "export_to_json"} = {}
            /\ ~Persisted(v)
            /\ video_info[v] = <<>>

\* C1 witness: the batch has been run to its end and the probe of some
\* video returned None on the way.
C1_Witness ==
    /\ pc = "done"
    /\ \E v \in Videos :
          /\ ResultOf(v, "probe") = "failed"
          /\ ResultOf(v, "acquire") = "ok"
          /\ v < i

\* C2: once the program has ended, every video that was downloaded and
\* probed successfully has had export_to_json called exactly once, and that
\* call stored its record.
C2_Orig_OneRecordPerProbedVideo ==
    Terminal =>
        \A v \in Videos :
            (ResultOf(v, "acquire") = "ok" /\ ResultOf(v, "probe") = "ok") =>
                NumExports(v) = 1 /\ Persisted(v)

\* A fact behind C2: video_info never has a 'filename' key, so no call of
\* export_to_json gets as far as writing, and the output directory stays
\* empty in every run.
C2_SinkStaysEmpty == output = <<>>

\* C3: once the program has ended, a successfully probed video whose scene
\* detection failed has its record persisted, with scenes = [] and the
\* failure recorded under stageErrors["scene"].
C3_Orig_SceneFailureDegrades ==
    Terminal =>
        \A v \in Videos :
            (ResultOf(v, "probe") = "ok" /\ ResultOf(v, "scene") = "failed") =>
                /\ Persisted(v)
                /\ Get(video_info[v], "scenes", PyNone) = <<>>
                /\ "scene" \in DOMAIN Get(video_info[v], "stageErrors", <<>>)

\* C4: once the program has ended, a successfully probed video whose
\* annotator returned no description has had apply_tags and classify_video
\* run to completion and its record persisted.
C4_Orig_AnnotationFailureDegrades ==
    Terminal =>
        \A v \in Videos :
            (ResultOf(v, "probe") = "ok" /\ ResultOf(v, "annotate") = "none") =>
                /\ ResultOf(v, "rules") = "ok"
                /\ "classify_video" \in CalledStages(v)
                /\ Persisted(v)

\* C5: once a driver's run has ended, every URL that follows a URL handed
\* to process_video_pipeline has been handed to it too.
C5_Orig_BatchNeverAborted ==
    (Terminal /\ entry # "call") =>
        \A v \in Videos :
            (calls[v] # <<>> /\ v + 1 \in Videos) => calls[v + 1] # <<>>

\* C6: the stages called for a video are a prefix of Locate, Acquire, Probe,
\* Scene, Annotate, apply_tags, classify_video, export_to_json; the probe
\* is called only with a local path, scene detection and annotation only
\* with metadata, and the rule engine only after both scene detection and
\* annotation have returned.
C6_StagesInOrder ==
    \A v \in Videos :
        /\ IsPrefix(calls[v], StageOrder)
        /\ "probe" \in CalledStages(v) =>
              /\ ResultOf(v, "acquire") = "ok"
              /\ local_filepath[v] \notin {PyNone, ""}
        /\ CalledStages(v) \cap {"scene", "annotate"} # {} =>
              /\ ResultOf(v, "probe") = "ok"
              /\ Len(metadata[v]) = 1
        /\ "apply_tags" \in CalledStages(v) =>
              /\ ResultOf(v, "scene") = "ok"
              /\ ResultOf(v, "annotate") \in {"ok", "none"}

\* C6 witness: every stage has been called for some video.
C6_Witness == \E v \in Videos : calls[v] = StageOrder

\* C7: a record whose rule evaluation completed on a description that
\* contains "action" has "Action" among its tags and classification
\* "Action".
C7_Orig_ClassifiedFromTags ==
    \A v \in Videos :
        (/\ ResultOf(v, "rules") = "ok"
         /\ IsSubstr("action", lower(qwen_description[v]))) =>
            /\ "Action" \in ToSet(video_info[v]["tags"])
            /\ video_info[v]["classification"] = "Action"

\* C8: with the custom rule {description_keywords: ["drone"], tags:
\* ["Aerial Shot"]}, a record whose description has the token "drone" and
\* that matches no built-in rule comes out of the rule engine with tags =
\* {"Aerial Shot"} and classification "Cinematic".
C8_Orig_CustomTagsClassify ==
    \A v \in Videos :
        (/\ "apply_tags" \in CalledStages(v)
         /\ custom_rules \in {[kind |-> "path", file |-> "ok", doc |-> DroneRules],
                              [kind |-> "dict", doc |-> DroneRules]}
         /\ qwen_description[v] # PyNone
         /\ "drone" \in split(qwen_description[v])
         /\ BuiltinTags(metadata[v][1], lower(qwen_description[v])) = <<>>) =>
            /\ ResultOf(v, "rules") = "ok"
            /\ ToSet(video_info[v]["tags"]) = {"Aerial Shot"}
            /\ video_info[v]["classification"] = "Cinematic"

\* The description of a video_info as the rule engine's contract reads it:
\* lower-cased, empty when absent.
DescriptionOf(info) ==
    IF Get(info, "qwen_description", PyNone) = PyNone THEN ""
    ELSE lower(info["qwen_description"])

\* The decision list of C9.
ClaimedClassification(info) ==
    LET tags == ToSet(Get(info, "tags", <<>>))
        d == DescriptionOf(info)
    IN  IF "Action" \in tags \/ "High Intensity" \in tags THEN "Action"
        ELSE IF IsSubstr("sports", d) THEN "Sports"
        ELSE IF Get(info, "duration", 0) > 3600 THEN "Feature-length"
        ELSE IF \/ IsSubstr("documentary", d)
                \/ "Documentary Footage" \in tags
                \/ "Narrative" \in tags
             THEN "Documentary"
        ELSE IF "Aerial Shot" \in tags \/ "Drone Footage" \in tags
             THEN "Cinematic"
        ELSE "Unclassified"

\* C9: classify_video returns, for every tag set, description and duration,
\* the label of the first matching rule of the decision list: Action or
\* High Intensity tag or "sports", then duration > 3600, then
\* "documentary" / Documentary Footage / Narrative, then Aerial Shot /
\* Drone Footage, else Unclassified.
C9_Orig_DecisionList ==
    e_pc = "classified" =>
        e_class = Return(ClaimedClassification(e_info.info))

\* The built-in tags of C10, for a file the prober reported as `probe` and
\* the video_info built from it.
ClaimedBuiltinTags(probe, info) ==
    LET d == DescriptionOf(info)
    IN  {t \in {"High-FPS", "HD", "High Resolution", "Subtitled",
                "Extended Play", "H.264 Codec", "Action",
                "Water-related content", "Night-time Filming"} :
           \/ t = "High-FPS" /\ probe.fps > 30
           \/ t = "HD" /\ probe.stream.width >= 1920
           \/ t = "High Resolution" /\ IsSubstr("4K", info["resolution"])
           \/ t = "Subtitled" /\ probe.has_subtitle
           \/ t = "Extended Play" /\ info["duration"] > 600
           \/ t = "H.264 Codec" /\ info["codec"] = "h264"
           \/ t = "Action" /\ IsSubstr("action", d)
           \/ t = "Water-related content" /\ IsSubstr("water", d)
           \/ t = "Night-time Filming" /\ IsSubstr("night shot", d)}

\* C10: with no custom rules, apply_tags returns exactly the tags whose
\* built-in condition holds: High-FPS, HD, High Resolution, Subtitled,
\* Extended Play, H.264 Codec, Action, Water-related content, Night-time
\* Filming.
C10_Orig_BuiltinTags ==
    (e_pc = "tagged" /\ e_rules = NoRules) =>
        /\ e_tags.raised = NoError
        /\ ToSet(e_tags.value) = ClaimedBuiltinTags(e_info.e_probe, e_info.info)

\* The list a tags list holds no value twice.
NoValueTwice(tags) ==
    \A a, b \in 1..Len(tags) : a # b => tags[a] # tags[b]

\* The tags the built-in rules and the rules of e_rules append for e_info,
\* in the order of the appends, before any set is taken.
AppendedTags ==
    ApplyRulesFrom(e_info.info,
                   BuiltinTags(e_info.info,
                               lower(Get(e_info.info, "qwen_description", ""))),
                   Get(e_rules.doc, "rules", <<>>), 1)

\* C11: whatever the record and the rule set, rules that repeat a built-in
\* tag or a tag of their own included, the list apply_tags returns holds no
\* tag twice.
C11_NoTagTwice ==
    (e_pc = "tagged" /\ e_tags.raised = NoError) => NoValueTwice(e_tags.value)

\* apply_tags returned for a rule file whose matching rules append a tag
\* that was appended already.
C11_Witness ==
    /\ e_pc = "tagged"
    /\ e_tags.raised = NoError
    /\ e_rules.kind = "path"
    /\ e_rules.file = "ok"
    /\ ~NoValueTwice(AppendedTags)
    /\ "H.264 Codec" \in ToSet(e_tags.value)

\* The custom_rules argument names a rules file that is missing or is not
\* JSON.
BadRulesSource ==
    /\ custom_rules.kind = "path"
    /\ custom_rules.file \in {"missing", "malformed"}

\* C13: when the custom rules source is missing or malformed, every video
\* that reaches the rule engine with a description is tagged as with no
\* custom rules at all, by the built-in rules only, and the run goes on.
C13_Orig_BadRulesNotFatal ==
    \A v \in Videos :
        (/\ BadRulesSource
         /\ "apply_tags" \in CalledStages(v)
         /\ qwen_description[v] # PyNone)
        => /\ ResultOf(v, "rules") = "ok"
           /\ error # "JSONDecodeError"
           /\ ToSet(video_info[v]["tags"])
                = ToSet(BuiltinTags(video_info[v],
                                    lower(qwen_description[v])))

\* C14: download_video never leaves a partly written file at a final
\* destination path: whatever is in the download directory, after a failed
\* call as after a successful one, is the product of a complete transfer.
C14_Orig_NoPartialFile ==
    \A path \in DOMAIN files : files[path] = "complete"

\* The path of the URL, without query string and fragment, ends in one of
\* the video extensions.
HasVideoPathExtension(url) ==
    \E k \in 1..Len(video_extensions) :
        EndsWith(CutAt(url, 1, {"?", "#"}), video_extensions[k])

\* C15: for a URL whose path extension is a video extension, whatever
\* query string follows, the resolver issues no HEAD and no page GET and
\* hands the URL unchanged to the transfer: the one request of the video is
\* the streamed GET of that URL.
C15_Orig_ExtensionDecidesOffline ==
    \A v \in Videos :
        ("locate" \in CalledStages(v) /\ HasVideoPathExtension(urls[v]))
        => requests[v] = <<[method |-> "GET", url |-> urls[v]]>>

\* apply_tags returned a list for a rules file that loaded.
TaggedWithRulesFile ==
    /\ e_pc = "tagged"
    /\ e_tags.raised = NoError
    /\ e_rules.kind = "path"
    /\ e_rules.file = "ok"

RulesOf(doc) == Get(doc, "rules", <<>>)

\* The keyword clause of `rule` as lines 60-64 evaluate it.
KeywordClauseMatched(info, rule) ==
    /\ "description_keywords" \in DOMAIN rule
    /\ \E k \in 1..Len(rule["description_keywords"]) :
          rule["description_keywords"][k]
              \in split(Get(info, "qwen_description", ""))

\* The metadata clause as stated: every clause that is given holds, a
\* clause that is not given imposes nothing.
StatedMetadataMatch(info, rule) ==
    /\ "metadata_conditions" \in DOMAIN rule
    /\ LET conditions == rule["metadata_conditions"]
       IN  /\ "resolution" \in DOMAIN conditions
                => conditions["resolution"] = Get(info, "resolution", "")
           /\ "duration_gt" \in DOMAIN conditions
                => Get(info, "duration", 0) > conditions["duration_gt"]

\* The built-in tags of e_info.
BuiltinTagSet ==
    ToSet(BuiltinTags(e_info.info,
                      lower(Get(e_info.info, "qwen_description", ""))))

\* C16: a rule with a metadata condition applies its tags exactly when
\* every clause it gives holds (resolution: equal; duration_gt: strictly
\* greater), a clause it does not give imposing nothing: the tags returned
\* are the built-in ones and the tags of the rules whose keyword clause or
\* so-read metadata clause matched.
C16_Orig_UnspecifiedClauseIsFree ==
    TaggedWithRulesFile =>
        LET rules == RulesOf(e_rules.doc)
        IN  ToSet(e_tags.value)
              = BuiltinTagSet
                \cup UNION {ToSet(Get(rules[k], "tags", <<>>)) :
                              k \in {j \in 1..Len(rules) :
                                       \/ KeywordClauseMatched(e_info.info,
                                                               rules[j])
                                       \/ StatedMetadataMatch(e_info.info,
                                                              rules[j])}}

\* The metadata clause of `rule` as lines 66-72 evaluate it.
MetadataClauseMatched(info, rule) ==
    /\ "metadata_conditions" \in DOMAIN rule
    /\ Get(rule["metadata_conditions"], "resolution", PyNone)
         = Get(info, "resolution", "")
    /\ Get(info, "duration", 0)
         > Get(rule["metadata_conditions"], "duration_gt", 0)

\* The keyword clause as stated: some keyword equals some token of the
\* lower-cased description.
StatedKeywordMatch(info, rule) ==
    /\ "description_keywords" \in DOMAIN rule
    /\ \E k \in 1..Len(rule["description_keywords"]) :
          rule["description_keywords"][k]
              \in split(lower(Get(info, "qwen_description", "")))

\* C17: keyword matching ignores the case of the description: the tags
\* returned are the built-in ones and the tags of the rules of which some
\* keyword equals a token of the lower-cased description, or whose
\* metadata clause matched.
C17_Orig_KeywordsIgnoreCase ==
    TaggedWithRulesFile =>
        LET rules == RulesOf(e_rules.doc)
        IN  ToSet(e_tags.value)
              = BuiltinTagSet
                \cup UNION {ToSet(Get(rules[k], "tags", <<>>)) :
                              k \in {j \in 1..Len(rules) :
                                       \/ StatedKeywordMatch(e_info.info,
                                                             rules[j])
                                       \/ MetadataClauseMatched(e_info.info,
                                                                rules[j])}}

\* The tags of the rules of `doc` whose keyword clause or metadata clause
\* matched for `info`.
MatchedRuleTags(info, doc) ==
    UNION {ToSet(Get(RulesOf(doc)[k], "tags", <<>>)) :
             k \in {j \in 1..Len(RulesOf(doc)) :
                      \/ KeywordClauseMatched(info, RulesOf(doc)[j])
                      \/ MetadataClauseMatched(info, RulesOf(doc)[j])}}

====
